---- MODULE Spec2Model ----
(***************************************************************************)
(* Model of src/planner.py: the Planner catalog (three parallel lists and  *)
(* two dicts), its mutations add_class / remove_class, and the greedy      *)
(* allocation of create_schedule, stepped one loop iteration at a time.    *)
(*                                                                         *)
(* A Python dict is modelled as a sequence of [k, v] records in insertion  *)
(* order, which is the order Python iterates it in.                        *)
(***************************************************************************)
EXTENDS Integers, Sequences, FiniteSets, TLC

\* ------------------------------------------------------------------------
\* Program constants (planner.py:19-20).
QUOTA == 180
MAX_CREDS == 18

\* ------------------------------------------------------------------------
\* Bounds of the model.
MaxCourses == 2      \* add_class is explored while the catalog has fewer entries
MaxRows == 2         \* rows of the csv file read at construction

\* Inputs explored.
Labels == {"A", "B", "C"}
CreditInputs == {4, 18}
BadCreditInputs == {0, -1}
TermInputs == { <<>>, <<"F">>, <<"W">>, <<"F", "W">>, <<"F", "F">>,
                <<"F", "W", "S">> }
BadTermInputs == { <<"Z">>, <<"F", "Z">> }
\* the (terms, credits) arguments add_class is called with
AddInputs == (TermInputs \X CreditInputs)
             \cup (BadTermInputs \X {4, 0})
             \cup ({ <<"F">> } \X BadCreditInputs)
StartYears == {22, 99}
\* Cells of the csv file: Term is a string, kept as its sequence of characters.
CsvRows == { [Class |-> "A", Term |-> <<"F">>, Credits |-> 18],
             [Class |-> "A", Term |-> <<"F", ",", " ", "W">>, Credits |-> 4],
             [Class |-> "B", Term |-> <<"F">>, Credits |-> 4],
             [Class |-> "C", Term |-> <<"W">>, Credits |-> 180] }

\* ------------------------------------------------------------------------
\* Python dicts.
EmptyDict == <<>>

DictKeys(d) == { d[i].k : i \in DOMAIN d }

DictHas(d, key) == \E i \in DOMAIN d : d[i].k = key

DictGet(d, key) == d[CHOOSE i \in DOMAIN d : d[i].k = key].v

\* faulty variant: a new key goes to the front of the dict
DictSet_new_key_first(d, key, val) ==
    IF DictHas(d, key)
    THEN [i \in DOMAIN d |-> IF d[i].k = key THEN [k |-> key, v |-> val] ELSE d[i]]
    ELSE << [k |-> key, v |-> val] >> \o d

DictSet(d, key, val) ==
    IF DictHas(d, key)
    THEN [i \in DOMAIN d |-> IF d[i].k = key THEN [k |-> key, v |-> val] ELSE d[i]]
    ELSE Append(d, [k |-> key, v |-> val])

DictPop(d, key) ==
    LET keep(i) == d[i].k # key
        F[i \in 0..Len(d)] ==
            IF i = 0 THEN <<>>
            ELSE IF keep(i) THEN Append(F[i - 1], d[i]) ELSE F[i - 1]
    IN F[Len(d)]

\* dict(zip(ks, vs)): a repeated key keeps its first position and its last value
DictZip(ks, vs) ==
    LET n == IF Len(ks) < Len(vs) THEN Len(ks) ELSE Len(vs)
        F[i \in 0..n] == IF i = 0 THEN EmptyDict ELSE DictSet(F[i - 1], ks[i], vs[i])
    IN F[n]

\* sum(d.values())
DictSum(d) ==
    LET F[i \in 0..Len(d)] == IF i = 0 THEN 0 ELSE F[i - 1] + d[i].v
    IN F[Len(d)]

\* ------------------------------------------------------------------------
\* Python lists.
SeqSum(s) ==
    LET F[i \in 0..Len(s)] == IF i = 0 THEN 0 ELSE F[i - 1] + s[i]
    IN F[Len(s)]

InList(x, s) == \E i \in DOMAIN s : s[i] = x

\* list.index(x): the first position holding x
ListIndex(s, x) == CHOOSE i \in DOMAIN s : s[i] = x /\ \A j \in 1..(i - 1) : s[j] # x

\* list.pop(index)
ListPop(s, index) == [i \in 1..(Len(s) - 1) |-> IF i < index THEN s[i] ELSE s[i + 1]]

\* ------------------------------------------------------------------------
\* str.split(', ') on a string given as its sequence of characters; every
\* piece is joined back into a string.
Join(chars) ==
    LET F[i \in 0..Len(chars)] == IF i = 0 THEN "" ELSE F[i - 1] \o chars[i]
    IN F[Len(chars)]

SepAt(s, i) == i + 1 <= Len(s) /\ s[i] = "," /\ s[i + 1] = " "

RECURSIVE SplitFrom(_, _, _)
SplitFrom(s, i, piece) ==
    IF i > Len(s) THEN << Join(piece) >>
    ELSE IF SepAt(s, i) THEN << Join(piece) >> \o SplitFrom(s, i + 2, <<>>)
    ELSE SplitFrom(s, i + 1, Append(piece, s[i]))

Split(s) == SplitFrom(s, 1, <<>>)

\* ------------------------------------------------------------------------
VARIABLES
    start_year,        \* self.start_year
    df,                \* self.df, as its three columns
    classes,           \* self.classes
    terms,             \* self.terms
    credits,           \* self.credits
    class_terms,       \* self.class_terms
    class_credits,     \* self.class_credits
    pc,                \* position inside create_schedule, "idle" outside it
    schedule,          \* create_schedule's local schedule
    total_credits,     \* create_schedule's local total_credits
    class_terms_copy,  \* create_schedule's local class_terms_copy
    classes_added,     \* create_schedule's local classes_added
    yi,                \* index into years of the year loop
    ci,                \* index into class_terms_copy.items() of the class loop
    ti,                \* index into terms of the term loop
    ai,                \* index into classes_added of the removal loop
    out,               \* what the call in progress or last finished showed its caller
    prev               \* out of the create_schedule call made just before this one

catalog == << df, classes, terms, credits, class_terms, class_credits >>
locals == << schedule, total_credits, class_terms_copy, classes_added, yi, ci, ti, ai >>
vars == << start_year, df, classes, terms, credits, class_terms, class_credits,
           pc, schedule, total_credits, class_terms_copy, classes_added,
           yi, ci, ti, ai, out, prev >>

\* What a caller observes of one call: the exception raised (or "none"), the
\* returned schedule, and the two warnings create_schedule prints.
NoOut == [ op |-> "none", raised |-> "none", returned |-> FALSE, ret |-> <<>>,
           quota_warning |-> FALSE, remaining_warning |-> FALSE, remaining |-> <<>> ]

Raised(op, exc) == [ NoOut EXCEPT !.op = op, !.raised = exc ]

Returned(op) == [ NoOut EXCEPT !.op = op, !.returned = TRUE ]

\* ------------------------------------------------------------------------
\* Planner.__init__
Column(rows, name) == [ i \in DOMAIN rows |-> rows[i][name] ]

RowSeqs == UNION { [1..n -> CsvRows] : n \in 0..MaxRows }

Init ==
    \E rows \in RowSeqs, sy \in StartYears :
        /\ start_year = sy
        /\ df = [ Class |-> Column(rows, "Class"), Term |-> Column(rows, "Term"),
                  Credits |-> Column(rows, "Credits") ]
        /\ classes = Column(rows, "Class")
        /\ terms = [ i \in DOMAIN rows |-> Split(rows[i].Term) ]
        /\ credits = Column(rows, "Credits")
        /\ class_terms = DictZip(Column(rows, "Class"),
                                 [ i \in DOMAIN rows |-> Split(rows[i].Term) ])
        /\ class_credits = DictZip(Column(rows, "Class"), Column(rows, "Credits"))
        /\ pc = "idle"
        /\ schedule = EmptyDict
        /\ total_credits = 0
        /\ class_terms_copy = EmptyDict
        /\ classes_added = <<>>
        /\ yi = 1 /\ ci = 1 /\ ti = 1 /\ ai = 1
        /\ out = NoOut
        /\ prev = NoOut

\* ------------------------------------------------------------------------
\* Planner.add_class
ValidTermTags == {"F", "W", "S"}

add_class_error(class_name, terms_, credits_) ==
    IF InList(class_name, classes) THEN "ValueError: Class already exists in the planner"
    ELSE IF \E i \in DOMAIN terms_ : terms_[i] \notin ValidTermTags
         THEN "ValueError: Term must be F, W, or S"
    ELSE IF credits_ <= 0 THEN "ValueError: Credits must be a positive integer"
    ELSE "none"

\* faulty variant: the credits test comes after the appends
add_class_late_credits_test(class_name, terms_, credits_) ==
    /\ pc = "idle"
    /\ IF InList(class_name, classes)
       THEN /\ out' = Raised("add_class", "ValueError: Class already exists in the planner")
            /\ UNCHANGED catalog
       ELSE IF \E i \in DOMAIN terms_ : terms_[i] \notin ValidTermTags
       THEN /\ out' = Raised("add_class", "ValueError: Term must be F, W, or S")
            /\ UNCHANGED catalog
       ELSE /\ classes' = Append(classes, class_name)
            /\ terms' = Append(terms, terms_)
            /\ credits' = Append(credits, credits_)
            /\ IF credits_ <= 0
               THEN /\ out' = Raised("add_class",
                                     "ValueError: Credits must be a positive integer")
                    /\ UNCHANGED << df, class_terms, class_credits >>
               ELSE /\ class_terms' = DictSet(class_terms, class_name, terms_)
                    /\ class_credits' = DictSet(class_credits, class_name, credits_)
                    /\ df' = [ Class |-> classes', Term |-> terms', Credits |-> credits' ]
                    /\ out' = Returned("add_class")
    /\ prev' = NoOut
    /\ UNCHANGED << start_year, pc, locals >>

add_class(class_name, terms_, credits_) ==
    /\ pc = "idle"
    /\ LET exc == add_class_error(class_name, terms_, credits_) IN
        IF exc # "none"
        THEN /\ out' = Raised("add_class", exc)
             /\ UNCHANGED catalog
        ELSE /\ classes' = Append(classes, class_name)
             /\ terms' = Append(terms, terms_)
             /\ credits' = Append(credits, credits_)
             /\ class_terms' = DictSet(class_terms, class_name, terms_)
             /\ class_credits' = DictSet(class_credits, class_name, credits_)
             /\ df' = [ Class |-> classes', Term |-> terms', Credits |-> credits' ]
             /\ out' = Returned("add_class")
    /\ prev' = NoOut
    /\ UNCHANGED << start_year, pc, locals >>

\* ------------------------------------------------------------------------
\* Planner.remove_class
remove_class(class_name) ==
    /\ pc = "idle"
    /\ IF ~InList(class_name, classes)
       THEN /\ out' = Raised("remove_class", "ValueError: Class does not exist in the planner")
            /\ UNCHANGED catalog
       ELSE LET index == ListIndex(classes, class_name) IN
            /\ classes' = ListPop(classes, index)
            /\ terms' = ListPop(terms, index)
            /\ credits' = ListPop(credits, index)
            /\ IF ~DictHas(class_terms, class_name)
               THEN \* class_terms.pop raises after the three lists were popped
                    /\ out' = Raised("remove_class", "KeyError")
                    /\ UNCHANGED << df, class_terms, class_credits >>
               ELSE /\ class_terms' = DictPop(class_terms, class_name)
                    /\ IF ~DictHas(class_credits, class_name)
                       THEN /\ out' = Raised("remove_class", "KeyError")
                            /\ UNCHANGED << df, class_credits >>
                       ELSE /\ class_credits' = DictPop(class_credits, class_name)
                            /\ df' = [ Class |-> classes', Term |-> terms',
                                       Credits |-> credits' ]
                            /\ out' = Returned("remove_class")
    /\ prev' = NoOut
    /\ UNCHANGED << start_year, pc, locals >>

\* ------------------------------------------------------------------------
\* Planner.get_total_credits, Planner.get_class_credits
get_total_credits == SeqSum(credits)

get_class_credits(class_name) == DictGet(class_credits, class_name)

\* ------------------------------------------------------------------------
\* Planner.create_schedule, one action per loop step.
\* faulty variant: the horizon is one year short
years_one_short == << start_year, start_year + 1, start_year + 2 >>

years == << start_year, start_year + 1, start_year + 2, start_year + 3 >>

\* faulty variant: the quota test with <= for <
quota_short_inclusive(total) == total <= QUOTA

\* the quota test of line 80
quota_short(total) == total < QUOTA

\* faulty variant: the capacity test without the credits already in the slot
has_room_ignoring_slot(slot, cr) == cr <= MAX_CREDS

\* faulty variant: the capacity test with < for <=
has_room_strict(slot, cr) == DictSum(slot) + cr < MAX_CREDS

\* the capacity test of line 93, on one slot {label: credits}
has_room(slot, cr) == DictSum(slot) + cr <= MAX_CREDS

\* {'F': {}, 'W': {}, 'S': {}}
NewYear == << [k |-> "F", v |-> EmptyDict], [k |-> "W", v |-> EmptyDict],
              [k |-> "S", v |-> EmptyDict] >>

\* faulty variant: the class goes to the year's F slot whatever the term at hand
place_in_fall(sched, year, term, class_name, cr) ==
    LET slots == DictGet(sched, year)
    IN DictSet(sched, year, DictSet(slots, "F", DictSet(DictGet(slots, "F"), class_name, cr)))

\* schedule[year][term][class_name] = cr
place(sched, year, term, class_name, cr) ==
    LET slots == DictGet(sched, year)
    IN DictSet(sched, year, DictSet(slots, term, DictSet(DictGet(slots, term), class_name, cr)))

\* faulty variant: pop(c, None), which never raises
pop_never_raises(d, c) == FALSE

\* class_terms_copy.pop(c) raises KeyError when c is not a key
pop_raises(d, c) == ~DictHas(d, c)

\* faulty variant: the placed class is not removed from the working dict
working_not_popped(d, c) == d

\* class_terms_copy after class_terms_copy.pop(c)
working_after_pop(d, c) == DictPop(d, c)

\* faulty variant: class_terms_copy = self.class_terms, one dict under two names
catalog_popped_too(d, c) == DictPop(d, c)

\* self.class_terms after class_terms_copy.pop(c): line 86 made the working
\* dict a separate object with .copy(), so the catalog's dict is not touched
catalog_after_pop(d, c) == d

ResetLocals ==
    /\ schedule' = EmptyDict
    /\ total_credits' = 0
    /\ class_terms_copy' = EmptyDict
    /\ classes_added' = <<>>
    /\ yi' = 1 /\ ci' = 1 /\ ti' = 1 /\ ai' = 1

\* an exception leaves create_schedule
Raise(exc) ==
    /\ pc' = "idle"
    /\ out' = [ out EXCEPT !.raised = exc ]
    /\ ResetLocals

\* lines 80-87
create_schedule_begin ==
    /\ pc = "idle"
    /\ prev' = IF out.op = "create_schedule" THEN out ELSE NoOut
    /\ out' = [ NoOut EXCEPT !.op = "create_schedule",
                             !.quota_warning = quota_short(get_total_credits) ]
    /\ schedule' = EmptyDict
    /\ total_credits' = 0
    /\ class_terms_copy' = class_terms
    /\ yi' = 1
    /\ pc' = "year"
    /\ UNCHANGED << start_year, catalog, classes_added, ci, ti, ai >>

\* lines 88-90, and the end of the year loop
for_year ==
    /\ pc = "year"
    /\ IF yi > Len(years)
       THEN /\ pc' = "finish"
            /\ UNCHANGED << schedule, classes_added, ci >>
       ELSE /\ schedule' = DictSet(schedule, years[yi], NewYear)
            /\ classes_added' = <<>>
            /\ ci' = 1
            /\ pc' = "class"
    /\ UNCHANGED << start_year, catalog, total_credits, class_terms_copy, yi, ti, ai,
                    out, prev >>

\* line 91: the next item of class_terms_copy.items(), or the end of the loop
for_class ==
    /\ pc = "class"
    /\ IF ci > Len(class_terms_copy)
       THEN /\ IF classes_added = <<>>
               THEN yi' = yi + 1 /\ pc' = "year"
               ELSE yi' = yi /\ pc' = "remove"
            /\ ai' = 1
            /\ UNCHANGED << ci, ti >>
       ELSE /\ IF Len(class_terms_copy[ci].v) = 0
               THEN ci' = ci + 1 /\ pc' = "class"
               ELSE ci' = ci /\ pc' = "term"
            /\ ti' = 1
            /\ UNCHANGED << yi, ai >>
    /\ UNCHANGED << start_year, catalog, schedule, total_credits, class_terms_copy,
                    classes_added, out, prev >>

\* lines 92-96: one term of the class at hand
for_term ==
    /\ pc = "term"
    /\ LET class_name == class_terms_copy[ci].k
           terms_ == class_terms_copy[ci].v
           term == terms_[ti]
           slots == DictGet(schedule, years[yi])
       IN IF ~DictHas(slots, term) \/ ~DictHas(class_credits, class_name)
          THEN Raise("KeyError")
          ELSE /\ IF has_room(DictGet(slots, term), get_class_credits(class_name))
                  THEN /\ schedule' = place(schedule, years[yi], term, class_name,
                                            get_class_credits(class_name))
                       /\ total_credits' = total_credits + get_class_credits(class_name)
                       /\ classes_added' = Append(classes_added, class_name)
                  ELSE UNCHANGED << schedule, total_credits, classes_added >>
               /\ IF ti < Len(terms_)
                  THEN ti' = ti + 1 /\ ci' = ci /\ pc' = "term"
                  ELSE ti' = 1 /\ ci' = ci + 1 /\ pc' = "class"
               /\ UNCHANGED << class_terms_copy, yi, ai, out >>
    /\ UNCHANGED << start_year, catalog, prev >>

\* lines 97-99: one class of classes_added, then on to the next year
remove_added ==
    /\ pc = "remove"
    /\ LET c == classes_added[ai]
       IN IF pop_raises(class_terms_copy, c)
          THEN /\ Raise("KeyError")
               /\ UNCHANGED catalog
          ELSE /\ class_terms_copy' = working_after_pop(class_terms_copy, c)
               /\ class_terms' = catalog_after_pop(class_terms, c)
               /\ IF ai < Len(classes_added)
                  THEN ai' = ai + 1 /\ yi' = yi /\ pc' = "remove"
                  ELSE ai' = 1 /\ yi' = yi + 1 /\ pc' = "year"
               /\ UNCHANGED << df, classes, terms, credits, class_credits, schedule,
                               total_credits, classes_added, ci, ti, out >>
    /\ UNCHANGED << start_year, prev >>

\* lines 100-103
create_schedule_return ==
    /\ pc = "finish"
    /\ out' = [ out EXCEPT !.returned = TRUE,
                           !.ret = schedule,
                           !.remaining_warning = (Len(class_terms_copy) > 0),
                           !.remaining = IF Len(class_terms_copy) > 0
                                         THEN [ i \in DOMAIN class_terms_copy |->
                                                  class_terms_copy[i].k ]
                                         ELSE <<>> ]
    /\ pc' = "idle"
    /\ ResetLocals
    /\ UNCHANGED << start_year, catalog, prev >>

\* ------------------------------------------------------------------------
Next ==
    \/ \E class_name \in Labels, args \in AddInputs :
            /\ Len(classes) < MaxCourses
            /\ add_class(class_name, args[1], args[2])
    \/ \E class_name \in Labels : remove_class(class_name)
    \/ create_schedule_begin
    \/ for_year
    \/ for_class
    \/ for_term
    \/ remove_added
    \/ create_schedule_return

Spec == Init /\ [][Next]_vars

\* The planner constructed from a csv file that has the header and no rows.
InitEmpty == Init /\ classes = <<>>

SpecEmpty == InitEmpty /\ [][Next]_vars

\* ------------------------------------------------------------------------
\* Vocabulary of the properties.

\* every (year, term, label) of a schedule
Placements(sched) ==
    UNION { UNION { { << sched[i].k, sched[i].v[j].k, sched[i].v[j].v[n].k >> :
                      n \in DOMAIN sched[i].v[j].v } :
                    j \in DOMAIN sched[i].v } :
            i \in DOMAIN sched }

\* every slot {label: credits} of a schedule
SlotsOf(sched) == UNION { { sched[i].v[j].v : j \in DOMAIN sched[i].v } : i \in DOMAIN sched }

PlacedLabels(sched) == { p[3] : p \in Placements(sched) }

Elems(s) == { s[i] : i \in DOMAIN s }

\* create_schedule has returned and its result is what the caller holds
ScheduleReturned == pc = "idle" /\ out.op = "create_schedule" /\ out.returned

\* the courses of the catalog are valid courses under distinct labels
ValidCatalog ==
    /\ \A i, j \in DOMAIN classes : classes[i] = classes[j] => i = j
    /\ DictKeys(class_terms) = Elems(classes)
    /\ \A i \in DOMAIN class_terms :
          LET ts == class_terms[i].v
          IN /\ Len(ts) > 0
             /\ Elems(ts) \subseteq ValidTermTags
             /\ \A m, n \in DOMAIN ts : ts[m] = ts[n] => m = n
    /\ \A i \in DOMAIN class_credits : class_credits[i].v > 0

\* ------------------------------------------------------------------------
\* C1: in every schedule create_schedule returns, a course label that appears
\* in the schedule appears in exactly one (year, term) slot.
C1_OneSlotPerCourse ==
    ScheduleReturned =>
        \A p, q \in Placements(out.ret) : p[3] = q[3] => p = q

\* a returned schedule that holds a course offered in two or more terms next
\* to another course
C1_Witness ==
    /\ ScheduleReturned
    /\ \E p \in Placements(out.ret) : Len(DictGet(class_terms, p[3])) >= 2
    /\ Cardinality(PlacedLabels(out.ret)) >= 2

\* C2: at every step of create_schedule and in the returned schedule, the
\* credits assigned to a (year, term) slot sum to at most MAX_CREDS = 18.
C2_SlotCap ==
    \A slot \in SlotsOf(schedule) \cup SlotsOf(out.ret) : DictSum(slot) <= MAX_CREDS

\* the term loop is about to test a class against a slot that is exactly full
C2_Witness ==
    /\ pc = "term"
    /\ DictSum(DictGet(DictGet(schedule, years[yi]), class_terms_copy[ci].v[ti])) = MAX_CREDS
    /\ ~DictHas(DictGet(DictGet(schedule, years[yi]), class_terms_copy[ci].v[ti]),
                class_terms_copy[ci].k)

\* C3: a course is only ever placed in a term of its stored eligible-terms
\* list: c in schedule[y][t] implies t in class_terms[c].
C3_OnlyEligibleTerms ==
    \A p \in Placements(schedule) \cup Placements(out.ret) :
        /\ DictHas(class_terms, p[3])
        /\ InList(p[2], DictGet(class_terms, p[3]))

\* a returned schedule with a course in a W slot while the F slot of that year
\* is not full
C3_Witness ==
    /\ ScheduleReturned
    /\ \E i \in DOMAIN out.ret :
          /\ DictGet(out.ret[i].v, "W") # EmptyDict
          /\ DictSum(DictGet(out.ret[i].v, "F")) < MAX_CREDS

\* C4: when create_schedule returns, the labels left in the working dict and
\* the labels placed in the schedule are disjoint and together are the labels
\* of the catalog's course -> terms mapping.
C4_Partition ==
    ScheduleReturned =>
        /\ Elems(out.remaining) \cap PlacedLabels(out.ret) = {}
        /\ Elems(out.remaining) \cup PlacedLabels(out.ret) = DictKeys(class_terms)

\* a return with both a placed and an unplaced course
C4_Witness ==
    /\ ScheduleReturned
    /\ out.remaining # <<>>
    /\ PlacedLabels(out.ret) # {}

\* C5: on a non-empty catalog of valid courses create_schedule returns a
\* schedule and never raises; removing the year's placed classes never fails.
C5_NeverRaises ==
    (ValidCatalog /\ classes # <<>> /\ out.op = "create_schedule") => out.raised = "none"

\* C6: within one year pass a course is placed in at most one term of that
\* year (the first eligible term with room), and never again afterwards.
C6_OneTermPerYear ==
    ValidCatalog =>
        \A p, q \in Placements(schedule) \cup Placements(out.ret) : p[3] = q[3] => p = q

\* C7: a course is left unplaced in a year pass exactly when, as it is
\* considered, every eligible term of that year lacks room for its credits;
\* it then stays in the working dict for the next year's pass, and it is
\* reported unplaced only if no year had room.  A (F, 18) then B (F, 4) gives
\* A in the start year's F and B in the next year's F.
SumWithout(slot, c) ==
    LET F[i \in 0..Len(slot)] ==
            IF i = 0 THEN 0
            ELSE IF slot[i].k = c THEN F[i - 1] ELSE F[i - 1] + slot[i].v
    IN F[Len(slot)]

\* the class loop has just finished a class: it was added this year iff some
\* eligible term had room before the class itself went in
C7_PlacedIffRoom ==
    (pc = "class" /\ ci > 1) =>
        LET c == class_terms_copy[ci - 1].k
            ts == class_terms_copy[ci - 1].v
            slots == DictGet(schedule, years[yi])
        IN InList(c, classes_added) <=>
             \E i \in DOMAIN ts :
                SumWithout(DictGet(slots, ts[i]), c) + DictGet(class_credits, c) <= MAX_CREDS

\* at the start of a year pass the working dict holds exactly the classes not
\* placed so far, in catalog order
C7_RetriedNextYear ==
    pc = "year" =>
        class_terms_copy =
            SelectSeq(class_terms, LAMBDA e : e.k \notin PlacedLabels(schedule))

\* a class reported unplaced has no eligible slot with room in any year
C7_UnplacedNoRoomAnywhere ==
    ScheduleReturned =>
        \A c \in Elems(out.remaining) : \A i \in DOMAIN out.ret :
            \A t \in Elems(DictGet(class_terms, c)) :
                DictSum(DictGet(out.ret[i].v, t)) + DictGet(class_credits, c) > MAX_CREDS

C7_ScenarioCatalog ==
    /\ class_terms = << [k |-> "A", v |-> <<"F">>], [k |-> "B", v |-> <<"F">>] >>
    /\ class_credits = << [k |-> "A", v |-> 18], [k |-> "B", v |-> 4] >>

C7_Scenario ==
    (ScheduleReturned /\ C7_ScenarioCatalog) =>
        /\ Placements(out.ret) = { << start_year, "F", "A" >>, << start_year + 1, "F", "B" >> }
        /\ out.remaining = <<>>

C7_SkippedIffNoRoom ==
    /\ C7_PlacedIffRoom
    /\ C7_RetriedNextYear
    /\ C7_UnplacedNoRoomAnywhere
    /\ C7_Scenario

\* the scenario has returned: B was skipped in the start year and placed in
\* the next
C7_Witness ==
    /\ ScheduleReturned
    /\ C7_ScenarioCatalog
    /\ << start_year + 1, "F", "B" >> \in Placements(out.ret)

\* C8: create_schedule reports the quota as met (prints no shortfall warning)
\* iff the catalog's total credits are at least 180, whatever was placed; and
\* a shortfall does not keep the schedule from being built and returned.
RECURSIVE SumOfList(_)
SumOfList(s) == IF s = <<>> THEN 0 ELSE Head(s) + SumOfList(Tail(s))

C8_QuotaReport ==
    out.op = "create_schedule" =>
        /\ ~out.quota_warning <=> SumOfList(credits) >= 180
        /\ (pc = "idle" /\ out.raised = "none") =>
               (out.returned /\ Len(out.ret) = Len(years))

\* the quota is met although a course could not be placed
C8_Witness ==
    /\ ScheduleReturned
    /\ ~out.quota_warning
    /\ out.remaining # <<>>
    /\ SumOfList(credits) = QUOTA

\* C9: create_schedule called twice in a row on an unchanged catalog shows the
\* caller the same schedule, the same unplaced courses, the same quota outcome.
C9_Idempotent ==
    (pc = "idle" /\ out.op = "create_schedule" /\ prev.op = "create_schedule") =>
        out = prev

\* a second call in a row has returned a schedule with courses placed and
\* courses left over
C9_Witness ==
    /\ ScheduleReturned
    /\ prev.op = "create_schedule"
    /\ PlacedLabels(out.ret) # {}
    /\ out.remaining # <<>>

\* C10: a rejected catalog mutation leaves the catalog as it was: add_class
\* with a label already present, a term tag outside {F, W, S} or credits <= 0
\* raises and adds nothing; remove_class of an absent label raises and removes
\* nothing.
\* Read off the step: a call that raised left the catalog alone, and a call
\* that went through had arguments none of the tests rejects.
C10_AddStep ==
    (pc = "idle" /\ pc' = "idle" /\ out'.op = "add_class") =>
        IF out'.raised # "none"
        THEN UNCHANGED catalog
        ELSE /\ Len(classes') = Len(classes) + 1
             /\ classes'[Len(classes')] \notin Elems(classes)
             /\ Elems(terms'[Len(terms')]) \subseteq {"F", "W", "S"}
             /\ credits'[Len(credits')] > 0

C10_RemoveStep ==
    (pc = "idle" /\ pc' = "idle" /\ out'.op = "remove_class") =>
        IF out'.raised = "ValueError: Class does not exist in the planner"
        THEN UNCHANGED catalog
        ELSE \E i \in DOMAIN classes :
                classes' = SubSeq(classes, 1, i - 1) \o SubSeq(classes, i + 1, Len(classes))

C10_RejectionIsAtomic == [][ C10_AddStep /\ C10_RemoveStep ]_vars

\* add_class has just refused non-positive credits on a catalog that holds a
\* course
C10_Witness ==
    /\ out.op = "add_class"
    /\ out.raised = "ValueError: Credits must be a positive integer"
    /\ classes # <<>>

\* C11: a successful remove_class(label) deletes exactly that course: the
\* catalog is one entry shorter, the label is in none of the five structures,
\* and every other course keeps its terms, its credits and its place among
\* the courses that remain.
C11_Removed(label) ==
    /\ Len(classes') = Len(classes) - 1
    /\ label \notin Elems(classes')
    /\ ~DictHas(class_terms', label)
    /\ ~DictHas(class_credits', label)
    /\ classes' = SelectSeq(classes, LAMBDA x : x # label)
    /\ class_terms' = SelectSeq(class_terms, LAMBDA e : e.k # label)
    /\ class_credits' = SelectSeq(class_credits, LAMBDA e : e.k # label)
    /\ \A i \in DOMAIN classes' :
          \E j \in DOMAIN classes :
              classes[j] = classes'[i] /\ terms[j] = terms'[i] /\ credits[j] = credits'[i]

C11_RemovesExactlyOne ==
    [][ \A label \in Labels :
          (remove_class(label) /\ out'.raised = "none") => C11_Removed(label) ]_vars

\* C12: in every reachable catalog state, after loading and after any add_class
\* and remove_class calls, no two catalog entries share a course label.
C12_LabelsUnique ==
    \A i, j \in DOMAIN classes : classes[i] = classes[j] => i = j

\* C13: after any add_class and remove_class calls on a catalog that started
\* empty, every course has credits > 0 and a non-empty eligible-terms list of
\* valid term tags.  (Checked under SpecEmpty.)
C13_CoursesValid ==
    /\ \A i \in DOMAIN classes :
          /\ credits[i] > 0
          /\ terms[i] # <<>>
          /\ Elems(terms[i]) \subseteq {"F", "W", "S"}
    /\ \A i \in DOMAIN class_terms :
          /\ class_terms[i].v # <<>>
          /\ Elems(class_terms[i].v) \subseteq {"F", "W", "S"}
    /\ \A i \in DOMAIN class_credits : class_credits[i].v > 0

\* C14: after any add_class and remove_class calls, successful or failing,
\* get_total_credits is the sum of the credits of the courses in the catalog,
\* each label counted once.
RECURSIVE SumOverLabels(_)
SumOverLabels(ls) ==
    IF ls = {} THEN 0
    ELSE LET l == CHOOSE x \in ls : TRUE
         IN DictGet(class_credits, l) + SumOverLabels(ls \ {l})

C14_TotalIsCatalogSum ==
    get_total_credits = SumOverLabels(DictKeys(class_credits))

\* C15: a returned schedule has exactly the 4 consecutive years start_year ..
\* start_year + 3 as keys, in ascending order, each with exactly the slots
\* F, W, S; also when nothing is placed in a year and when the catalog is empty.
KeysOf(d) == [ i \in DOMAIN d |-> d[i].k ]

C15_ScheduleShape ==
    ScheduleReturned =>
        /\ KeysOf(out.ret) = [ i \in 1..4 |-> start_year + i - 1 ]
        /\ \A i \in DOMAIN out.ret : KeysOf(out.ret[i].v) = << "F", "W", "S" >>

\* the schedule of an empty catalog has been returned: four years of empty
\* slots
C15_Witness ==
    /\ ScheduleReturned
    /\ class_terms = EmptyDict
    /\ Len(out.ret) = 4
    /\ \A i \in DOMAIN out.ret : \A j \in DOMAIN out.ret[i].v : out.ret[i].v[j].v = EmptyDict

\* C16: every year pass considers the remaining courses in catalog insertion
\* order: a course is given room only after every remaining course inserted
\* before it was considered for that year, and a course removed and added
\* again comes after all courses that were in the catalog.
FirstIndex(s, x) == CHOOSE i \in DOMAIN s : s[i] = x /\ \A j \in 1..(i - 1) : s[j] # x

\* the working dict lists its courses in the order the catalog received them
C16_WorkingInCatalogOrder ==
    pc # "idle" =>
        /\ \A i \in DOMAIN class_terms_copy : class_terms_copy[i].k \in Elems(classes)
        /\ \A i, j \in DOMAIN class_terms_copy :
              i < j => FirstIndex(classes, class_terms_copy[i].k)
                         < FirstIndex(classes, class_terms_copy[j].k)

\* the courses given room this year are among those the class loop has
\* reached, and they were given room in that order
C16_PlacedAfterEarlier ==
    pc \in {"class", "term"} =>
        /\ \A n \in DOMAIN classes_added :
              \E i \in DOMAIN class_terms_copy :
                  /\ class_terms_copy[i].k = classes_added[n]
                  /\ IF pc = "term" THEN i <= ci ELSE i < ci
        /\ \A m, n \in DOMAIN classes_added :
              m < n => FirstIndex(classes, classes_added[m])
                         <= FirstIndex(classes, classes_added[n])

\* a course add_class accepts becomes the last course of the catalog
C16_AddedLast ==
    (pc = "idle" /\ pc' = "idle" /\ out'.op = "add_class" /\ out'.raised = "none") =>
        /\ classes' = Append(classes, classes'[Len(classes')])
        /\ KeysOf(class_terms') = Append(KeysOf(class_terms), classes'[Len(classes')])
        /\ classes'[Len(classes')] \notin Elems(classes)

C16_InsertionOrderPriority ==
    /\ [](C16_WorkingInCatalogOrder /\ C16_PlacedAfterEarlier)
    /\ [][C16_AddedLast]_vars

\* B was inserted before A, both want the F slot whole: B has the start
\* year's F and A waits for the next year's
C16_Witness ==
    /\ ScheduleReturned
    /\ classes = << "B", "A" >>
    /\ << start_year, "F", "B" >> \in Placements(out.ret)
    /\ << start_year + 1, "F", "A" >> \in Placements(out.ret)

\* C17: the classes, terms and credits lists and the class_terms and
\* class_credits dicts describe the same course set: same labels, and for
\* every label the same terms and the same credits, after loading and after
\* any sequence of add_class / remove_class calls.
C17_StructuresAgree ==
    /\ Len(terms) = Len(classes)
    /\ Len(credits) = Len(classes)
    /\ DictKeys(class_terms) = Elems(classes)
    /\ DictKeys(class_credits) = Elems(classes)
    /\ Len(class_terms) = Len(classes)
    /\ Len(class_credits) = Len(classes)
    /\ \A i \in DOMAIN classes :
          /\ DictHas(class_terms, classes[i]) => DictGet(class_terms, classes[i]) = terms[i]
          /\ DictHas(class_credits, classes[i]) => DictGet(class_credits, classes[i]) = credits[i]

C17_AgreeWhenIdle == pc = "idle" => C17_StructuresAgree

\* C18: create_schedule never changes the catalog, whether it returns or
\* raises: it works on its own copy of the course-to-terms dict.
C18_CatalogUntouched ==
    [][ (pc # "idle" \/ pc' # "idle") => UNCHANGED catalog ]_vars

\* a call that gave room to a course and popped it from the working dict has
\* returned, and the course is still in the catalog
C18_Witness ==
    /\ ScheduleReturned
    /\ Len(classes) = 2
    /\ C12_LabelsUnique
    /\ PlacedLabels(out.ret) = Elems(classes)
    /\ DictKeys(class_terms) = Elems(classes)

====
